---- MODULE Spec2Model ----
(***************************************************************************)
(* ManagedMap (src/src/map.rs): a map that is either a borrowed, sorted    *)
(* slice of optional key/value pairs (Borrowed) or a B-tree map (Owned).   *)
(*                                                                         *)
(* Option values are sequences: None is << >> and Some(x) is <<x>>.        *)
(* A Result is a record with one field: [ok |-> x] or [err |-> e].         *)
(* A key is a record [ord, tag]: K's Ord compares ord only, so two keys    *)
(* with the same ord compare Equal; tag is what else a key may carry.      *)
(***************************************************************************)
EXTENDS Integers, Sequences, FiniteSets, TLC

\* Largest length of the borrowed slice (0 is a legal length).
MaxCap == 3
\* Keys have ord in 1..MaxKey.
MaxKey == 4
\* Values are 1..MaxVal.
MaxVal == 2

VARIABLES
    pairs,      \* the slice behind ManagedMap::Borrowed
    owned,      \* the BTreeMap behind ManagedMap::Owned, as a set of pairs
    call,       \* the last call: [op, key, value]
    ret,        \* what the last call returned on the Borrowed map
    oret,       \* what the last call returned on the Owned map
    before,     \* pairs as it was when the last call started
    obefore,    \* owned as it was when the last call started
    panicked,   \* the last call on the Borrowed map aborted
    exceeded    \* the Owned map has held more keys than the slice has slots

vars == <<pairs, owned, call, ret, oret, before, obefore, panicked, exceeded>>

None == << >>
Some(x) == <<x>>
is_some(o) == o # None
is_none(o) == o = None
unwrap(o) == o[1]

Ok(x) == [ok |-> x]
Err(e) == [err |-> e]
IsOk(r) == DOMAIN r = {"ok"}
IsErr(r) == DOMAIN r = {"err"}

Ords == 1..MaxKey
Tags == {0}
Keys == [ord : Ords, tag : Tags]
Vals == 1..MaxVal
Pair(k, v) == [key |-> k, value |-> v]

\* K: Ord, the comparison of two keys.
Cmp(a, b) ==
    IF a.ord < b.ord THEN "Less"
    ELSE IF a.ord > b.ord THEN "Greater"
    ELSE "Equal"

\* The comparison with Option's own order, in which None sorts first.
RevCmpNoneFirst(entry, key) ==
    IF is_none(entry) THEN "Less"
    ELSE Cmp(unwrap(entry).key, key)

\* RevOption's derived Ord, in the one direction the search uses it:
\* RevOption::from(entry key) compared with RevOption::Some(key).
\* Some sorts before None; two Some compare by key.
RevCmp(entry, key) ==
    IF is_none(entry) THEN "Greater"
    ELSE Cmp(unwrap(entry).key, key)

\* The search loop moving base only past a probe that compares Less: a probe
\* that compares Equal is left behind like one that compares Greater.
RECURSIVE SearchLoopSkipEqual(_, _, _, _)
SearchLoopSkipEqual(slice, key, base, size) ==
    IF size > 1
    THEN LET half == size \div 2
             mid == base + half
         IN  SearchLoopSkipEqual(slice, key,
                                 IF RevCmp(slice[mid + 1], key) = "Less" THEN mid ELSE base,
                                 size - half)
    ELSE base

\* core::slice::binary_search_by, the loop: halve size, keep base at the
\* last probe that did not compare Greater.
RECURSIVE SearchLoop(_, _, _, _)
SearchLoop(slice, key, base, size) ==
    IF size > 1
    THEN LET half == size \div 2
             mid == base + half
         IN  SearchLoop(slice, key,
                        IF RevCmp(slice[mid + 1], key) = "Greater" THEN base ELSE mid,
                        size - half)
    ELSE base

\* The search returning Err(base) also when the last probe compares Less:
\* the insertion index is one short behind a smaller key.
binary_search_err_base(slice, key) ==
    IF Len(slice) = 0 THEN Err(0)
    ELSE LET base == SearchLoop(slice, key, 0, Len(slice))
             cmp == RevCmp(slice[base + 1], key)
         IN  IF cmp = "Equal" THEN Ok(base) ELSE Err(base)

\* binary_search_by_key(slice, key): Ok(idx) where slice[idx] holds key,
\* Err(idx) where key would be inserted.  Indices are 0-based as in the source;
\* slice[i + 1] is the source's slice[i].
binary_search_by_key(slice, key) ==
    IF Len(slice) = 0 THEN Err(0)
    ELSE LET base == SearchLoop(slice, key, 0, Len(slice))
             cmp == RevCmp(slice[base + 1], key)
         IN  IF cmp = "Equal" THEN Ok(base)
             ELSE Err(base + (IF cmp = "Less" THEN 1 ELSE 0))

\* rotate_left turning the other way: the last mid elements move to the front.
rotate_right(s, mid) ==
    [i \in 1..Len(s) |-> IF i - mid >= 1 THEN s[i - mid] ELSE s[i - mid + Len(s)]]

\* core::slice::rotate_left(mid) on a whole sequence: the first mid elements
\* move to the end.  Called with 0 <= mid <= Len(s).
rotate_left(s, mid) ==
    [i \in 1..Len(s) |-> IF i + mid <= Len(s) THEN s[i + mid] ELSE s[i + mid - Len(s)]]

\* The rotation applied to the whole slice instead of to slice[idx..].
rotate_whole(slice, idx, mid) == rotate_left(slice, mid)

\* slice[idx..].rotate_left(mid) in place; idx is 0-based.
rotate_tail(slice, idx, mid) ==
    SubSeq(slice, 1, idx) \o rotate_left(SubSeq(slice, idx + 1, Len(slice)), mid)

\* The outcome of one call on the Borrowed map.
Outcome(p, r, panic) == [pairs |-> p, ret |-> r, panic |-> panic]

\* A call that aborted returns nothing.
Panic == [panic |-> TRUE]

\* ClearBorrowed stopping one slot short of the end.
ClearBorrowedButLast(p) ==
    Outcome([i \in 1..Len(p) |-> IF i < Len(p) THEN None ELSE p[i]], None, FALSE)

\* ManagedMap::clear, Borrowed arm: every slot becomes None.
ClearBorrowed(p) ==
    Outcome([i \in 1..Len(p) |-> None], None, FALSE)

\* pair_by_key / pair_mut_by_key: the found slot is unwrapped, which aborts
\* on an empty slot.
pair_by_key(p, key) ==
    LET found == binary_search_by_key(p, key)
    IN  IF IsErr(found) THEN found
        ELSE IF is_none(p[found.ok + 1]) THEN Panic
        ELSE Ok(unwrap(p[found.ok + 1]))

\* ManagedMap::get, Borrowed arm.
GetBorrowed(p, key) ==
    LET found == pair_by_key(p, key)
    IN  IF found = Panic THEN Outcome(p, Panic, TRUE)
        ELSE IF IsOk(found) THEN Outcome(p, Some(found.ok.value), FALSE)
        ELSE Outcome(p, None, FALSE)

\* ManagedMap::get_mut, Borrowed arm, and the caller's use of the reference
\* it returns: the caller stores write through it (write may be the value
\* already there).
GetMutBorrowed(p, key, write) ==
    LET found == binary_search_by_key(p, key)
    IN  IF IsErr(found) THEN Outcome(p, None, FALSE)
        ELSE IF is_none(p[found.ok + 1]) THEN Outcome(p, Panic, TRUE)
        ELSE Outcome([p EXCEPT ![found.ok + 1] = Some(Pair(unwrap(@).key, write))],
                     Some(unwrap(p[found.ok + 1]).value), FALSE)

\* InsertBorrowed without the guard of the Err arm (the fullness test).
InsertBorrowedNoFullCheck(p, key, new_value) ==
    LET found == binary_search_by_key(p, key)
    IN  IF IsErr(found)
        THEN LET idx == found.err
             IN  IF Len(p) - idx - 1 < 0 THEN Outcome(p, Panic, TRUE)
                 ELSE LET rotated == rotate_tail(p, idx, Len(p) - idx - 1)
                      IN  IF is_some(rotated[idx + 1])
                          THEN Outcome(rotated, Panic, TRUE)
                          ELSE Outcome([rotated EXCEPT ![idx + 1] = Some(Pair(key, new_value))],
                                       Ok(None), FALSE)
        ELSE LET idx == found.ok
                 swap_pair == p[idx + 1]
                 swapped == [p EXCEPT ![idx + 1] = Some(Pair(key, new_value))]
             IN  IF is_none(swap_pair) THEN Outcome(swapped, Panic, TRUE)
                 ELSE Outcome(swapped, Ok(Some(unwrap(swap_pair).value)), FALSE)

\* InsertBorrowed with the fullness test made before the search result is
\* looked at: a full region rejects a key it holds.
InsertBorrowedFullFirst(p, key, new_value) ==
    LET found == binary_search_by_key(p, key)
    IN  IF Len(p) = 0 THEN Outcome(p, Panic, TRUE)
        ELSE IF is_some(p[Len(p)]) THEN Outcome(p, Err(<<key, new_value>>), FALSE)
        ELSE IF IsErr(found)
        THEN LET idx == found.err
                 rotated == rotate_tail(p, idx, Len(p) - idx - 1)
             IN  IF is_some(rotated[idx + 1])
                 THEN Outcome(rotated, Panic, TRUE)
                 ELSE Outcome([rotated EXCEPT ![idx + 1] = Some(Pair(key, new_value))],
                              Ok(None), FALSE)
        ELSE LET idx == found.ok
                 swap_pair == p[idx + 1]
                 swapped == [p EXCEPT ![idx + 1] = Some(Pair(key, new_value))]
             IN  IF is_none(swap_pair) THEN Outcome(swapped, Panic, TRUE)
                 ELSE Outcome(swapped, Ok(Some(unwrap(swap_pair).value)), FALSE)

\* InsertBorrowed whose replace arm reads the old pair and leaves it in place.
InsertBorrowedKeepOld(p, key, new_value) ==
    LET found == binary_search_by_key(p, key)
    IN  IF IsErr(found)
        THEN IF Len(p) = 0 THEN Outcome(p, Panic, TRUE)
             ELSE IF is_some(p[Len(p)]) THEN Outcome(p, Err(<<key, new_value>>), FALSE)
             ELSE LET idx == found.err
                      rotated == rotate_tail(p, idx, Len(p) - idx - 1)
                  IN  IF is_some(rotated[idx + 1])
                      THEN Outcome(rotated, Panic, TRUE)
                      ELSE Outcome([rotated EXCEPT ![idx + 1] = Some(Pair(key, new_value))],
                                   Ok(None), FALSE)
        ELSE LET idx == found.ok
                 swap_pair == p[idx + 1]
             IN  IF is_none(swap_pair) THEN Outcome(p, Panic, TRUE)
                 ELSE Outcome(p, Ok(Some(unwrap(swap_pair).value)), FALSE)

\* InsertBorrowed whose replace arm returns the pair it has just stored.
InsertBorrowedReturnsNew(p, key, new_value) ==
    LET found == binary_search_by_key(p, key)
    IN  IF IsErr(found)
        THEN IF Len(p) = 0 THEN Outcome(p, Panic, TRUE)
             ELSE IF is_some(p[Len(p)]) THEN Outcome(p, Err(<<key, new_value>>), FALSE)
             ELSE LET idx == found.err
                      rotated == rotate_tail(p, idx, Len(p) - idx - 1)
                  IN  IF is_some(rotated[idx + 1])
                      THEN Outcome(rotated, Panic, TRUE)
                      ELSE Outcome([rotated EXCEPT ![idx + 1] = Some(Pair(key, new_value))],
                                   Ok(None), FALSE)
        ELSE LET idx == found.ok
                 swapped == [p EXCEPT ![idx + 1] = Some(Pair(key, new_value))]
             IN  IF is_none(p[idx + 1]) THEN Outcome(swapped, Panic, TRUE)
                 ELSE Outcome(swapped, Ok(Some(new_value)), FALSE)

\* InsertBorrowed storing a new pair in the last slot, which the guard has
\* found empty, without rotating it to the insertion index.
InsertBorrowedAtEnd(p, key, new_value) ==
    LET found == binary_search_by_key(p, key)
    IN  IF IsErr(found)
        THEN IF Len(p) = 0 THEN Outcome(p, Panic, TRUE)
             ELSE IF is_some(p[Len(p)]) THEN Outcome(p, Err(<<key, new_value>>), FALSE)
             ELSE Outcome([p EXCEPT ![Len(p)] = Some(Pair(key, new_value))], Ok(None), FALSE)
        ELSE LET idx == found.ok
                 swap_pair == p[idx + 1]
                 swapped == [p EXCEPT ![idx + 1] = Some(Pair(key, new_value))]
             IN  IF is_none(swap_pair) THEN Outcome(swapped, Panic, TRUE)
                 ELSE Outcome(swapped, Ok(Some(unwrap(swap_pair).value)), FALSE)

\* ManagedMap::insert, Borrowed arm.
InsertBorrowed(p, key, new_value) ==
    LET found == binary_search_by_key(p, key)
    IN  IF IsErr(found)
        THEN \* the guard reads pairs[pairs.len() - 1]
             IF Len(p) = 0 THEN Outcome(p, Panic, TRUE)
             ELSE IF is_some(p[Len(p)]) THEN Outcome(p, Err(<<key, new_value>>), FALSE)
             ELSE LET idx == found.err
                  IN  \* rotate_by = pairs.len() - idx - 1, in usize
                      IF Len(p) - idx - 1 < 0 THEN Outcome(p, Panic, TRUE)
                      ELSE LET rotated == rotate_tail(p, idx, Len(p) - idx - 1)
                           IN  IF is_some(rotated[idx + 1])
                               THEN Outcome(rotated, Panic, TRUE)
                               ELSE Outcome([rotated EXCEPT ![idx + 1] = Some(Pair(key, new_value))],
                                            Ok(None), FALSE)
        ELSE LET idx == found.ok
                 swap_pair == p[idx + 1]
                 swapped == [p EXCEPT ![idx + 1] = Some(Pair(key, new_value))]
             IN  IF is_none(swap_pair) THEN Outcome(swapped, Panic, TRUE)
                 ELSE Outcome(swapped, Ok(Some(unwrap(swap_pair).value)), FALSE)

\* RemoveBorrowed without the rotation: the emptied slot stays where it is.
RemoveBorrowedNoRotate(p, key) ==
    LET found == binary_search_by_key(p, key)
    IN  IF IsErr(found) THEN Outcome(p, None, FALSE)
        ELSE LET idx == found.ok
                 taken == [p EXCEPT ![idx + 1] = None]
             IN  IF is_none(p[idx + 1]) THEN Outcome(taken, Panic, TRUE)
                 ELSE Outcome(taken, Some(unwrap(p[idx + 1]).value), FALSE)

\* RemoveBorrowed rotating pairs[idx + 1..] instead of pairs[idx..]: the
\* emptied slot stays at idx.
RemoveBorrowedRotateAfter(p, key) ==
    LET found == binary_search_by_key(p, key)
    IN  IF IsErr(found) THEN Outcome(p, None, FALSE)
        ELSE LET idx == found.ok
                 taken == [p EXCEPT ![idx + 1] = None]
             IN  IF is_none(p[idx + 1]) THEN Outcome(taken, Panic, TRUE)
                 ELSE Outcome(rotate_tail(taken, idx + 1, 1),
                              Some(unwrap(p[idx + 1]).value), FALSE)

\* RemoveBorrowed reading the found pair without taking it out of its slot.
RemoveBorrowedKeepsPair(p, key) ==
    LET found == binary_search_by_key(p, key)
    IN  IF IsErr(found) THEN Outcome(p, None, FALSE)
        ELSE LET idx == found.ok
             IN  IF is_none(p[idx + 1]) THEN Outcome(p, Panic, TRUE)
                 ELSE Outcome(rotate_tail(p, idx, 1),
                              Some(unwrap(p[idx + 1]).value), FALSE)

\* ManagedMap::remove, Borrowed arm.
RemoveBorrowed(p, key) ==
    LET found == binary_search_by_key(p, key)
    IN  IF IsErr(found) THEN Outcome(p, None, FALSE)
        ELSE LET idx == found.ok
                 taken == [p EXCEPT ![idx + 1] = None]
             IN  IF is_none(p[idx + 1]) THEN Outcome(taken, Panic, TRUE)
                 ELSE Outcome(rotate_tail(taken, idx, 1),
                              Some(unwrap(p[idx + 1]).value), FALSE)

\* is_empty with any in place of all: true as soon as one slot is empty.
is_empty_any(p) == \E i \in 1..Len(p) : is_none(p[i])

\* ManagedMap::is_empty, Borrowed arm.
is_empty(p) == \A i \in 1..Len(p) : is_none(p[i])

\* len counting the slots of the slice, occupied or not.
len_slots(p) == Len(p)

\* ManagedMap::len, Borrowed arm.
len(p) == Cardinality({i \in 1..Len(p) : is_some(p[i])})

\* The outcome of one call on the Owned map.
OwnedOutcome(m, r) == [map |-> m, ret |-> r]

\* The entries of a BTreeMap whose key compares Equal to key (at most one).
Entries(m, key) == {e \in m : Cmp(e.key, key) = "Equal"}

\* ManagedMap::clear, Owned arm: BTreeMap::clear.
ClearOwned(m) == OwnedOutcome({}, None)

\* ManagedMap::get, Owned arm: BTreeMap::get.
GetOwned(m, key) ==
    IF Entries(m, key) = {} THEN OwnedOutcome(m, None)
    ELSE OwnedOutcome(m, Some((CHOOSE e \in Entries(m, key) : TRUE).value))

\* ManagedMap::get_mut, Owned arm: BTreeMap::get_mut, and the caller's store
\* of write through the reference.
GetMutOwned(m, key, write) ==
    IF Entries(m, key) = {} THEN OwnedOutcome(m, None)
    ELSE LET e == CHOOSE x \in Entries(m, key) : TRUE
         IN  OwnedOutcome((m \ {e}) \cup {Pair(e.key, write)}, Some(e.value))

\* ManagedMap::insert, Owned arm: Ok(BTreeMap::insert), which keeps the key
\* of an entry it finds and replaces its value.
InsertOwned(m, key, new_value) ==
    IF Entries(m, key) = {} THEN OwnedOutcome(m \cup {Pair(key, new_value)}, Ok(None))
    ELSE LET e == CHOOSE x \in Entries(m, key) : TRUE
         IN  OwnedOutcome((m \ {e}) \cup {Pair(e.key, new_value)}, Ok(Some(e.value)))

\* ManagedMap::remove, Owned arm: BTreeMap::remove.
RemoveOwned(m, key) ==
    IF Entries(m, key) = {} THEN OwnedOutcome(m, None)
    ELSE LET e == CHOOSE x \in Entries(m, key) : TRUE
         IN  OwnedOutcome(m \ {e}, Some(e.value))

\* ManagedMap::is_empty and ManagedMap::len, Owned arm.
is_empty_owned(m) == m = {}
len_owned(m) == Cardinality(m)

(***************************************************************************)
(* Vocabulary of the properties, by linear scan of a region.               *)
(* I1 is also what the caller's slice satisfies at construction.           *)
(***************************************************************************)

\* The indices (1-based) of the slots of p holding a key that compares
\* Equal to key.
SlotsOf(p, key) ==
    {i \in 1..Len(p) : is_some(p[i]) /\ Cmp(unwrap(p[i]).key, key) = "Equal"}

Present(p, key) == SlotsOf(p, key) # {}
Absent(p, key) == SlotsOf(p, key) = {}
HasEmptySlot(p) == \E i \in 1..Len(p) : is_none(p[i])
AllOccupied(p) == \A i \in 1..Len(p) : is_some(p[i])

\* The value stored with key, by linear scan: Some(value) or None.
ScanGet(p, key) ==
    IF Absent(p, key) THEN None
    ELSE Some(unwrap(p[CHOOSE i \in SlotsOf(p, key) : TRUE]).value)

\* The pairs stored in p, as a set.
StoredPairs(p) == {unwrap(p[i]) : i \in {j \in 1..Len(p) : is_some(p[j])}}

\* I1: occupied slots first, strictly increasing by key, then only empty slots.
I1(p) ==
    \A i \in 1..Len(p) : \A j \in 1..Len(p) :
        i < j =>
            /\ is_some(p[j]) => is_some(p[i])
            /\ (is_some(p[i]) /\ is_some(p[j])) =>
                   Cmp(unwrap(p[i]).key, unwrap(p[j]).key) = "Less"

\* I2: no key is stored in two slots.
I2(p) == \A k \in Keys : Cardinality(SlotsOf(p, k)) <= 1

(***************************************************************************)
(* The state machine.  A caller holds one Borrowed map over a slice of     *)
(* 0..MaxCap slots and calls its methods one after another.  For the       *)
(* comparison of the two variants, DualSpec gives the same calls to a      *)
(* Borrowed map and to an Owned map.                                       *)
(***************************************************************************)

\* The slices a caller can build: every slot is None or Some((k, v)).
Slots == {None} \cup {Some(Pair(k, v)) : k \in Keys, v \in Vals}
Slices == UNION {[1..cap -> Slots] : cap \in 0..MaxCap}

\* From<&mut [Option<(K, V)>]>: the map borrows the caller's slice as it is.
from(value) == value

\* The caller passes a slice that satisfies I1: all slots empty
\* (all_pairs_empty), some occupied (one_pair_full) or all (all_pairs_full).
Init ==
    /\ \E value \in Slices : I1(value) /\ pairs = from(value)
    /\ owned = {}
    /\ call = [op |-> "from"]
    /\ ret = None
    /\ oret = None
    /\ before = pairs
    /\ obefore = {}
    /\ panicked = FALSE
    /\ exceeded = FALSE

\* A call on the Borrowed map: it runs only if no earlier call aborted.
BorrowedCall(c, out) ==
    /\ ~panicked
    /\ call' = c
    /\ before' = pairs
    /\ pairs' = out.pairs
    /\ ret' = out.ret
    /\ panicked' = out.panic

OwnedIdle == UNCHANGED <<owned, oret, obefore, exceeded>>

Clear ==
    /\ BorrowedCall([op |-> "clear"], ClearBorrowed(pairs))
    /\ OwnedIdle

Get(k) ==
    /\ BorrowedCall([op |-> "get", key |-> k], GetBorrowed(pairs, k))
    /\ OwnedIdle

GetMut(k, w) ==
    /\ BorrowedCall([op |-> "get_mut", key |-> k, value |-> w], GetMutBorrowed(pairs, k, w))
    /\ OwnedIdle

Insert(k, v) ==
    /\ BorrowedCall([op |-> "insert", key |-> k, value |-> v], InsertBorrowed(pairs, k, v))
    /\ OwnedIdle

Remove(k) ==
    /\ BorrowedCall([op |-> "remove", key |-> k], RemoveBorrowed(pairs, k))
    /\ OwnedIdle

IsEmpty ==
    /\ BorrowedCall([op |-> "is_empty"], Outcome(pairs, is_empty(pairs), FALSE))
    /\ OwnedIdle

LenCall ==
    /\ BorrowedCall([op |-> "len"], Outcome(pairs, len(pairs), FALSE))
    /\ OwnedIdle

Next ==
    \/ Clear
    \/ \E k \in Keys : Get(k)
    \/ \E k \in Keys, w \in Vals : GetMut(k, w)
    \/ \E k \in Keys, v \in Vals : Insert(k, v)
    \/ \E k \in Keys : Remove(k)
    \/ IsEmpty
    \/ LenCall

Spec == Init /\ [][Next]_vars

\* The same call on the Owned map.  exceeded records that the Owned map holds
\* more keys than the slice has slots; the comparison of the two ends there.
OwnedCall(out) ==
    /\ ~exceeded
    /\ obefore' = owned
    /\ owned' = out.map
    /\ oret' = out.ret
    /\ exceeded' = (len_owned(out.map) > Len(pairs))

DualClear ==
    /\ BorrowedCall([op |-> "clear"], ClearBorrowed(pairs))
    /\ OwnedCall(ClearOwned(owned))

DualGet(k) ==
    /\ BorrowedCall([op |-> "get", key |-> k], GetBorrowed(pairs, k))
    /\ OwnedCall(GetOwned(owned, k))

DualGetMut(k, w) ==
    /\ BorrowedCall([op |-> "get_mut", key |-> k, value |-> w], GetMutBorrowed(pairs, k, w))
    /\ OwnedCall(GetMutOwned(owned, k, w))

DualInsert(k, v) ==
    /\ BorrowedCall([op |-> "insert", key |-> k, value |-> v], InsertBorrowed(pairs, k, v))
    /\ OwnedCall(InsertOwned(owned, k, v))

DualRemove(k) ==
    /\ BorrowedCall([op |-> "remove", key |-> k], RemoveBorrowed(pairs, k))
    /\ OwnedCall(RemoveOwned(owned, k))

DualIsEmpty ==
    /\ BorrowedCall([op |-> "is_empty"], Outcome(pairs, is_empty(pairs), FALSE))
    /\ OwnedCall(OwnedOutcome(owned, is_empty_owned(owned)))

DualLen ==
    /\ BorrowedCall([op |-> "len"], Outcome(pairs, len(pairs), FALSE))
    /\ OwnedCall(OwnedOutcome(owned, len_owned(owned)))

\* Both maps start empty; the slice has at least one slot.
DualInit == Init /\ Len(pairs) >= 1 /\ is_empty(pairs)

DualNext ==
    \/ DualClear
    \/ \E k \in Keys : DualGet(k)
    \/ \E k \in Keys, w \in Vals : DualGetMut(k, w)
    \/ \E k \in Keys, v \in Vals : DualInsert(k, v)
    \/ \E k \in Keys : DualRemove(k)
    \/ DualIsEmpty
    \/ DualLen

DualSpec == DualInit /\ [][DualNext]_vars

(***************************************************************************)
(* C1.  Sortedness invariant: from a region that satisfies I1 (all slots   *)
(* empty or not), after any sequence of insert, remove, clear, get and     *)
(* get_mut calls the region reads, left to right, as the occupied slots in *)
(* strictly increasing key order followed only by empty slots, and no key  *)
(* is stored in two slots.                                                 *)
(***************************************************************************)
C1_Sortedness == I1(pairs) /\ I2(pairs)

\* An insert of a new key has shifted two or more stored pairs to the right
\* and stored its pair in slot 0.
C1_Witness ==
    /\ call.op = "insert"
    /\ ret = Ok(None)
    /\ len(before) >= 2
    /\ Cmp(unwrap(pairs[1]).key, call.key) = "Equal"

(***************************************************************************)
(* C2.  Full-capacity rejection: on a region of capacity >= 1 with every   *)
(* slot occupied, insert(k, v) of a key not present returns Err((k, v))    *)
(* with the caller's key and value, and every slot is as it was before the *)
(* call, so len() is unchanged.                                            *)
(***************************************************************************)
C2_FullRejection ==
    (/\ call.op = "insert"
     /\ Len(before) >= 1
     /\ AllOccupied(before)
     /\ Absent(before, call.key))
    => /\ ret = Err(<<call.key, call.value>>)
       /\ pairs = before
       /\ len(pairs) = len(before)
       /\ ~panicked

\* An insert of an absent key was rejected by a full region of 2 or more slots.
C2_Witness ==
    /\ call.op = "insert"
    /\ Len(before) >= 2
    /\ AllOccupied(before)
    /\ Absent(before, call.key)
    /\ IsErr(ret)

(***************************************************************************)
(* C3.  Only failure mode of insertion: on a region of capacity >= 1,      *)
(* insert(k, v) returns Err exactly when k is not present and no slot is   *)
(* empty; insert of a present key returns Ok(Some(old)) even when the      *)
(* region is full, and insert of an absent key returns Ok(None) whenever a *)
(* slot is empty.                                                          *)
(***************************************************************************)
C3_OnlyFailure ==
    (call.op = "insert" /\ Len(before) >= 1)
    => /\ IsErr(ret) <=> (Absent(before, call.key) /\ ~HasEmptySlot(before))
       /\ Present(before, call.key) => ret = Ok(ScanGet(before, call.key))
       /\ (Absent(before, call.key) /\ HasEmptySlot(before)) => ret = Ok(None)

\* A present key was replaced in a full region of 2 or more slots.
C3_Witness ==
    /\ call.op = "insert"
    /\ Len(before) >= 2
    /\ AllOccupied(before)
    /\ Present(before, call.key)
    /\ IsOk(ret)
    /\ ret.ok # None

(***************************************************************************)
(* C4.  Round-trip: if insert(k, v) returns Ok, a get(k) issued right      *)
(* after it returns Some(v), both when k was new and when k replaced an    *)
(* entry.                                                                  *)
(***************************************************************************)
C4_RoundTrip ==
    (call.op = "insert" /\ IsOk(ret))
    => GetBorrowed(pairs, call.key) = Outcome(pairs, Some(call.value), FALSE)

\* An insert replaced the value of a key stored behind another key by a
\* different value.
C4_Witness ==
    /\ call.op = "insert"
    /\ IsOk(ret)
    /\ ret.ok # None
    /\ ret.ok # Some(call.value)
    /\ 1 \notin SlotsOf(pairs, call.key)

(***************************************************************************)
(* C5.  Replace semantics: insert(k, v) of a present key returns           *)
(* Ok(Some(previous value of k)) and leaves len() unchanged; insert(k, v)  *)
(* of an absent key into a region with an empty slot returns Ok(None) and  *)
(* increases len() by exactly 1; into an entirely empty region it puts the *)
(* pair in slot 0 and leaves all other slots empty.                        *)
(***************************************************************************)
C5_ReplaceSemantics ==
    call.op = "insert"
    => /\ Present(before, call.key)
          => /\ ret = Ok(ScanGet(before, call.key))
             /\ len(pairs) = len(before)
       /\ (Absent(before, call.key) /\ HasEmptySlot(before))
          => /\ ret = Ok(None)
             /\ len(pairs) = len(before) + 1
       /\ (is_empty(before) /\ Len(before) >= 1)
          => /\ pairs[1] = Some(Pair(call.key, call.value))
             /\ \A i \in 2..Len(pairs) : is_none(pairs[i])

\* A new key went into a region that held pairs and had room: len() grew from
\* 2 or more.
C5_Witness ==
    /\ call.op = "insert"
    /\ Absent(before, call.key)
    /\ len(before) >= 2
    /\ len(pairs) = len(before) + 1

(***************************************************************************)
(* C6.  Removal shift: remove(k) of a key present at index i returns       *)
(* Some(its value), leaves the slots before i unchanged, moves every slot  *)
(* formerly at j > i to j - 1 and leaves the last slot empty, so len()     *)
(* decreases by exactly 1; remove(k) of an absent key returns None and     *)
(* leaves every slot unchanged.                                            *)
(***************************************************************************)
C6_RemovalShift ==
    call.op = "remove"
    => /\ Present(before, call.key)
          => LET i == CHOOSE x \in SlotsOf(before, call.key) : TRUE
             IN  /\ ret = Some(unwrap(before[i]).value)
                 /\ Len(pairs) = Len(before)
                 /\ \A j \in 1..(i - 1) : pairs[j] = before[j]
                 /\ \A j \in (i + 1)..Len(before) : pairs[j - 1] = before[j]
                 /\ is_none(pairs[Len(pairs)])
                 /\ len(pairs) = len(before) - 1
       /\ Absent(before, call.key)
          => /\ ret = None
             /\ pairs = before

\* A key was removed from the middle of an occupied run: a pair stayed before
\* it and a pair moved left behind it.
C6_Witness ==
    /\ call.op = "remove"
    /\ is_some(ret)
    /\ \E i \in SlotsOf(before, call.key) :
           /\ i > 1
           /\ i < Len(before)
           /\ is_some(before[i + 1])

(***************************************************************************)
(* C7.  Lookup correctness: for every query key k, get(k) and get_mut(k)   *)
(* return the value of the one slot whose key equals k when there is one   *)
(* and report absence otherwise: the binary search agrees with a linear    *)
(* scan.  get changes no slot; a write through get_mut changes only the    *)
(* value of that one slot.                                                 *)
(***************************************************************************)
C7_Lookup ==
    /\ \A k \in Keys :
           /\ GetBorrowed(pairs, k) = Outcome(pairs, ScanGet(pairs, k), FALSE)
           /\ \A w \in Vals : GetMutBorrowed(pairs, k, w).ret = ScanGet(pairs, k)
           /\ Present(pairs, k) =>
                  IsOk(binary_search_by_key(pairs, k))
                  /\ SlotsOf(pairs, k) = {binary_search_by_key(pairs, k).ok + 1}
    /\ call.op = "get" => (ret = ScanGet(before, call.key) /\ pairs = before)
    /\ call.op = "get_mut" =>
           /\ ret = ScanGet(before, call.key)
           /\ Len(pairs) = Len(before)
           /\ \A i \in 1..Len(before) :
                  IF i \in SlotsOf(before, call.key)
                  THEN pairs[i] = Some(Pair(unwrap(before[i]).key, call.value))
                  ELSE pairs[i] = before[i]

\* A write through get_mut changed the value of the last of three stored
\* pairs.
C7_Witness ==
    /\ call.op = "get_mut"
    /\ is_some(ret)
    /\ ret # Some(call.value)
    /\ len(before) >= 3
    /\ 3 \in SlotsOf(before, call.key)

(***************************************************************************)
(* C8.  Clear: whatever the region held, clear() leaves every slot empty,  *)
(* so len() = 0 and is_empty() = true right after it; a second clear()     *)
(* changes nothing; the capacity is unchanged, so on a region that has a   *)
(* slot any insert succeeds again.                                         *)
(***************************************************************************)
C8_Clear ==
    call.op = "clear"
    => /\ \A i \in 1..Len(pairs) : is_none(pairs[i])
       /\ len(pairs) = 0
       /\ is_empty(pairs)
       /\ ClearBorrowed(pairs) = Outcome(pairs, None, FALSE)
       /\ Len(pairs) = Len(before)
       /\ Len(pairs) >= 1 =>
              \A k \in Keys, v \in Vals : InsertBorrowed(pairs, k, v).ret = Ok(None)

\* A full region of 3 or more slots was cleared.
C8_Witness ==
    /\ call.op = "clear"
    /\ Len(before) >= 3
    /\ AllOccupied(before)

C10_NoAbort ==
    Len(pairs) >= 1
    => /\ ~panicked
       /\ \A k \in Keys :
              /\ ~GetBorrowed(pairs, k).panic
              /\ ~RemoveBorrowed(pairs, k).panic
              /\ binary_search_by_key(pairs, k) \in
                     {Ok(i) : i \in 0..(Len(pairs) - 1)} \cup {Err(i) : i \in 0..Len(pairs)}
              /\ \A v \in Vals :
                     /\ ~InsertBorrowed(pairs, k, v).panic
                     /\ ~GetMutBorrowed(pairs, k, v).panic

\* An insert rotated stored pairs out of the insertion slot, found it empty
\* and returned.
C10_Witness ==
    /\ call.op = "insert"
    /\ ret = Ok(None)
    /\ ~panicked
    /\ \E i \in SlotsOf(pairs, call.key) : is_some(before[i])


(***************************************************************************)
(* C11.  Capacity is fixed: the region has as many slots after every       *)
(* operation as before it, hence as at construction; in every state        *)
(* 0 <= len() <= capacity, and is_empty() is true exactly when len() = 0.  *)
(***************************************************************************)
C11_Capacity ==
    /\ Len(pairs) = Len(before)
    /\ 0 <= len(pairs)
    /\ len(pairs) <= Len(pairs)
    /\ is_empty(pairs) <=> len(pairs) = 0
    /\ call.op = "len" => ret = Cardinality(StoredPairs(pairs))
    /\ call.op = "is_empty" => ret = (StoredPairs(pairs) = {})

\* A remove left a region that is neither empty nor full.
C11_Witness ==
    /\ call.op = "remove"
    /\ is_some(ret)
    /\ 0 < len(pairs)
    /\ len(pairs) < Len(pairs) - 1
    /\ ~is_empty(pairs)


(***************************************************************************)
(* C13.  Insertion into a region with no empty slot is a typed failure for *)
(* every capacity: on a map built over a slice of length 0, insert(k, v)   *)
(* returns Err((k, v)) with the caller's key and value and does not abort. *)
(***************************************************************************)
C13_ZeroLengthErr ==
    (call.op = "insert" /\ Len(before) = 0)
    => /\ ~panicked
       /\ ret = Err(<<call.key, call.value>>)


\* The number of stored keys that compare Less than key: the 0-based index
\* at which key belongs in a region that satisfies I1.
RankOf(p, key) ==
    Cardinality({j \in 1..Len(p) : is_some(p[j]) /\ Cmp(unwrap(p[j]).key, key) = "Less"})

(***************************************************************************)
(* C14.  Frame of a successful new-key insert: when insert(k, v) finds k   *)
(* absent with insertion index i and the last slot empty, rotating the     *)
(* suffix i.. left by (suffix length - 1) is shifting it right by one:     *)
(* slots 0..i-1 are unchanged and hold keys less than k, slot i holds      *)
(* (k, v), every slot formerly at j >= i except the last is now at j + 1,  *)
(* the one slot content dropped is the empty last slot, and the stored     *)
(* pairs are the old pairs plus (k, v).                                    *)
(***************************************************************************)
C14_InsertFrame ==
    (/\ call.op = "insert"
     /\ Absent(before, call.key)
     /\ Len(before) >= 1
     /\ is_none(before[Len(before)]))
    => LET n == Len(before)
           i == RankOf(before, call.key)
       IN  /\ binary_search_by_key(before, call.key) = Err(i)
           /\ rotate_tail(before, i, n - i - 1)
                  = SubSeq(before, 1, i) \o <<before[n]>> \o SubSeq(before, i + 1, n - 1)
           /\ ret = Ok(None)
           /\ Len(pairs) = n
           /\ \A j \in 1..i :
                  /\ pairs[j] = before[j]
                  /\ is_some(pairs[j])
                  /\ Cmp(unwrap(pairs[j]).key, call.key) = "Less"
           /\ pairs[i + 1] = Some(Pair(call.key, call.value))
           /\ \A j \in (i + 1)..(n - 1) : pairs[j + 1] = before[j]
           /\ StoredPairs(pairs) = StoredPairs(before) \cup {Pair(call.key, call.value)}
           /\ len(pairs) = len(before) + 1

\* A new key went between two stored pairs: one stayed before it, one moved
\* right behind it.
C14_Witness ==
    /\ call.op = "insert"
    /\ ret = Ok(None)
    /\ RankOf(before, call.key) >= 1
    /\ RankOf(before, call.key) < len(before)
    /\ pairs[RankOf(before, call.key) + 2] = before[RankOf(before, call.key) + 1]


(***************************************************************************)
(* C15.  The fullness test is exact: in every reachable state of a map of  *)
(* capacity >= 1 the last slot is occupied if and only if no slot is       *)
(* empty, that is if and only if len() = capacity; so the last-slot test   *)
(* of insert never rejects an insert while a slot is empty and never       *)
(* accepts a new key when none is.                                         *)
(***************************************************************************)
C15_FullnessExact ==
    Len(pairs) >= 1
    => /\ is_some(pairs[Len(pairs)]) <=> ~HasEmptySlot(pairs)
       /\ is_some(pairs[Len(pairs)]) <=> len(pairs) = Len(pairs)
       /\ call.op = "insert"
          => /\ IsErr(ret) => ~HasEmptySlot(before)
             /\ ret = Ok(None) => HasEmptySlot(before)
             /\ (Absent(before, call.key) /\ HasEmptySlot(before)) => ret = Ok(None)

\* A remove from inside a full region of 3 or more slots left its last slot,
\* and only that one, empty.
C15_Witness ==
    /\ call.op = "remove"
    /\ is_some(ret)
    /\ Len(before) >= 3
    /\ AllOccupied(before)
    /\ Len(before) \notin SlotsOf(before, call.key)
    /\ is_none(pairs[Len(pairs)])
    /\ len(pairs) = Len(pairs) - 1


(***************************************************************************)
(* Keys that compare Equal without being the same key.  K: Ord lets two    *)
(* keys with different tags compare Equal; TagSpec is Spec with such keys  *)
(* in the caller's slice and in the keys passed to insert.  Lookups take   *)
(* the borrowed form &Q of a key, of which only the order matters.         *)
(***************************************************************************)
TagKeys == [ord : Ords, tag : {0, 1}]
TagSlots == {None} \cup {Some(Pair(k, v)) : k \in TagKeys, v \in Vals}
TagSlices == UNION {[1..cap -> TagSlots] : cap \in 0..MaxCap}

TagInit ==
    /\ \E value \in TagSlices : I1(value) /\ pairs = from(value)
    /\ owned = {}
    /\ call = [op |-> "from"]
    /\ ret = None
    /\ oret = None
    /\ before = pairs
    /\ obefore = {}
    /\ panicked = FALSE
    /\ exceeded = FALSE

TagNext ==
    \/ Clear
    \/ \E k \in Keys : Get(k)
    \/ \E k \in Keys, w \in Vals : GetMut(k, w)
    \/ \E k \in TagKeys, v \in Vals : Insert(k, v)
    \/ \E k \in Keys : Remove(k)
    \/ IsEmpty
    \/ LenCall

TagSpec == TagInit /\ [][TagNext]_vars

(***************************************************************************)
(* C16.  Replace touches only the value: when insert(k, v) finds a stored  *)
(* key equal to k at index i, the key stored in slot i is left as it was   *)
(* (it is not replaced by the caller's key), the slot stays occupied, its  *)
(* value becomes v, and every other slot is unchanged.                     *)
(***************************************************************************)
C16_ReplaceKeepsKey ==
    (call.op = "insert" /\ Present(before, call.key))
    => /\ Len(pairs) = Len(before)
       /\ \A i \in 1..Len(before) :
              IF i \in SlotsOf(before, call.key)
              THEN /\ is_some(pairs[i])
                   /\ unwrap(pairs[i]).key = unwrap(before[i]).key
                   /\ unwrap(pairs[i]).value = call.value
              ELSE pairs[i] = before[i]


\* The keys stored in p, by their place in K's order.
StoredOrds(p) == {e.key.ord : e \in StoredPairs(p)}

(***************************************************************************)
(* C17.  Recovery from capacity exhaustion: once insert(k, v) has failed   *)
(* on a full map, after remove(k') of any present key k' the same          *)
(* insert(k, v) returns Ok(None) and get(k) returns Some(v); without a     *)
(* successful remove or a clear in between, an insert of an absent key     *)
(* keeps failing and keeps the region unchanged.                           *)
(***************************************************************************)
C17_Recovery ==
    /\ (call.op = "insert" /\ IsErr(ret))
       => /\ InsertBorrowed(pairs, call.key, call.value)
                 = Outcome(pairs, Err(<<call.key, call.value>>), FALSE)
          /\ \A k2 \in Keys :
                 Present(pairs, k2)
                 => LET removed == RemoveBorrowed(pairs, k2)
                        inserted == InsertBorrowed(removed.pairs, call.key, call.value)
                    IN  /\ is_some(removed.ret)
                        /\ ~removed.panic
                        /\ inserted.ret = Ok(None)
                        /\ ~inserted.panic
                        /\ GetBorrowed(inserted.pairs, call.key).ret = Some(call.value)
    /\ (/\ Len(before) >= 1
        /\ AllOccupied(before)
        /\ call.op # "clear"
        /\ ~(call.op = "remove" /\ is_some(ret)))
       => /\ AllOccupied(pairs)
          /\ StoredOrds(pairs) = StoredOrds(before)
          /\ \A k \in Keys, v \in Vals :
                 Absent(pairs, k)
                 => InsertBorrowed(pairs, k, v) = Outcome(pairs, Err(<<k, v>>), FALSE)
    /\ (/\ call.op = "remove"
        /\ is_some(ret)
        /\ AllOccupied(before))
       => \A k \in Keys, v \in Vals :
              Absent(pairs, k)
              => LET inserted == InsertBorrowed(pairs, k, v)
                 IN  /\ inserted.ret = Ok(None)
                     /\ GetBorrowed(inserted.pairs, k).ret = Some(v)

\* An insert of a key that belongs between two stored keys failed on a full
\* region.
C17_Witness ==
    /\ call.op = "insert"
    /\ IsErr(ret)
    /\ AllOccupied(pairs)
    /\ RankOf(pairs, call.key) >= 1
    /\ RankOf(pairs, call.key) < Len(pairs)


(***************************************************************************)
(* Any caller-supplied slice.  From takes the slice without looking at it, *)
(* and ManagedMap::Borrowed is a public variant, so a map can be built     *)
(* over a slice that does not satisfy I1.  AnySpec is Spec started from    *)
(* every slice; all values are OneValue, as values play no part in the     *)
(* order of the slots.                                                     *)
(***************************************************************************)
OneValue == CHOOSE v \in Vals : TRUE
AnySlots == {None} \cup {Some(Pair(k, OneValue)) : k \in Keys}
AnySlices == UNION {[1..cap -> AnySlots] : cap \in 0..MaxCap}

AnyInit ==
    /\ \E value \in AnySlices : pairs = from(value)
    /\ owned = {}
    /\ call = [op |-> "from"]
    /\ ret = None
    /\ oret = None
    /\ before = pairs
    /\ obefore = {}
    /\ panicked = FALSE
    /\ exceeded = FALSE

AnyNext ==
    \/ Clear
    \/ \E k \in Keys : Get(k)
    \/ \E k \in Keys : GetMut(k, OneValue)
    \/ \E k \in Keys : Insert(k, OneValue)
    \/ \E k \in Keys : Remove(k)
    \/ IsEmpty
    \/ LenCall

AnySpec == AnyInit /\ [][AnyNext]_vars

\* get finds every stored key.
GetFindsAll(p) == \A k \in Keys : Present(p, k) => is_some(GetBorrowed(p, k).ret)

(***************************************************************************)
(* C18.  As claimed: constructing the Borrowed variant from any slice,     *)
(* whatever its contents, yields a map for which I1 and I2 hold before the *)
(* first operation and after every later one, so that get finds every      *)
(* stored key and no key is stored twice.                                  *)
(***************************************************************************)
C18_AnySliceSorted == I1(pairs) /\ I2(pairs) /\ GetFindsAll(pairs)

(***************************************************************************)
(* C18, amended.  The constructor stores the caller's slice as it is; I1   *)
(* and I2 hold before the first operation only if the slice satisfies      *)
(* them.  From every state in which I1 and I2 hold, they hold after every  *)
(* later operation, get finds every stored key, and no key is stored       *)
(* twice.                                                                  *)
(***************************************************************************)
C18_SortedStaysSorted ==
    [][(I1(pairs) /\ I2(pairs))
       => (I1(pairs') /\ I2(pairs') /\ GetFindsAll(pairs) /\ GetFindsAll(pairs'))]_vars

\* Over a slice that satisfied I1, an insert shifted stored pairs and left
\* the region sorted.
C18_Witness ==
    /\ call.op = "insert"
    /\ ret = Ok(None)
    /\ I1(before)
    /\ I1(pairs)
    /\ len(before) >= 2
    /\ RankOf(before, call.key) < len(before)


(***************************************************************************)
(* C19.  Insert/remove round-trip: if k is absent and insert(k, v) returns *)
(* Ok(None), a remove(k) right after it returns Some(v) and leaves the     *)
(* region slot for slot as it was before the insert; if k is present with  *)
(* value v, remove(k) followed by insert(k, v) returns Ok(None) and        *)
(* restores the region slot for slot.                                      *)
(***************************************************************************)
C19_InsertRemove ==
    /\ (call.op = "insert" /\ Absent(before, call.key) /\ ret = Ok(None))
       => RemoveBorrowed(pairs, call.key) = Outcome(before, Some(call.value), FALSE)
    /\ (call.op = "remove" /\ Present(before, call.key))
       => /\ ret = ScanGet(before, call.key)
          /\ InsertBorrowed(pairs, call.key, unwrap(ret)) = Outcome(before, Ok(None), FALSE)

\* A key was removed from between two stored pairs, so that inserting it
\* again has to shift the pair behind it back.
C19_Witness ==
    /\ call.op = "remove"
    /\ is_some(ret)
    /\ RankOf(before, call.key) >= 1
    /\ RankOf(before, call.key) + 1 < len(before)
    /\ pairs # before

====
